---------------------------- MODULE Spec2Model ----------------------------
(***************************************************************************)
(* Model of the client-side widgets of new.smslive247.com.                 *)
(*                                                                         *)
(* AccessiblePagination (js/accessible-infinite-scroll.js), the live region *)
(* of AccessibilityManager (js/accessibility-utils.js), AccessibleDropdown *)
(* (js/accessible-dropdown.js) and AccessibleCarousel                      *)
(* (js/accessible-carousel.js).  The widgets share nothing but the live    *)
(* region, so each has a specification of its own in which the others      *)
(* stay as constructed.                                                    *)
(*                                                                         *)
(* JavaScript runs every event handler and every continuation of an await  *)
(* to completion, so one action is one handler run: a user trigger runs    *)
(* loadMore() up to its await, the settlement of the fetch runs the rest   *)
(* of loadMore() (try / catch / finally), and each timer callback is an    *)
(* action of its own.                                                      *)
(***************************************************************************)
EXTENDS Integers, Sequences, FiniteSets

VARIABLES
    options,        \* this.options: itemsPerPage, announceNewItems, showPageNumbers
    a11y,           \* window.a11y is defined (accessibility-utils.js was loaded)
    source,         \* which fetchMoreItems() runs: the reference one or an override
    ownContainer,   \* the container holds a .pagination-items element
    currentPage,    \* this.currentPage
    totalItems,     \* this.totalItems
    isLoading,      \* this.isLoading
    hasMore,        \* this.hasMore
    children,       \* this.itemsContainer.children, the Item Store
    ariaBusy,       \* itemsContainer aria-busy
    btnDisabled,    \* loadMoreBtn.disabled
    btnText,        \* loadMoreBtn.textContent
    statusText,     \* statusMessage.textContent
    pageInfo,       \* pageInfo.textContent as <<page, items>>, <<>> without pageInfo
    tabindexed,     \* positions in children carrying tabindex="-1" set by addItems
    focusedChild,   \* position in children last focused by addItems, 0 if none
    tabTimers,      \* pending 100 ms timers of addItems, oldest first
    announcerText,  \* a11y.announcer.textContent
    announcerLive,  \* a11y.announcer aria-live
    clearTimers,    \* number of pending 1000 ms clear timers of announce()
    pendingFetches, \* fetchMoreItems() promises not yet settled
    history,        \* the settled fetches, oldest first
    lastCall,       \* the latest step of a loadMore() call: issued, ignored, returned
    lastAnnounce,   \* the arguments of the latest direct call of a11y.announce()
    dropdown,       \* an AccessibleDropdown with its trigger, menu and menu items
    carousel        \* an AccessibleCarousel with its slides and controls

vars == <<options, a11y, source, ownContainer, currentPage, totalItems,
          isLoading, hasMore, children, ariaBusy, btnDisabled, btnText,
          statusText, pageInfo, tabindexed, focusedChild, tabTimers,
          announcerText, announcerLive, clearTimers, pendingFetches,
          history, lastCall, lastAnnounce, dropdown, carousel>>

pagVars == <<currentPage, totalItems, isLoading, hasMore, children, ariaBusy,
             btnDisabled, btnText, statusText, pageInfo, tabindexed,
             focusedChild, tabTimers, pendingFetches, history>>

announcerVars == <<announcerText, announcerLive, clearTimers>>

pagEnvVars == <<options, a11y, source, ownContainer>>

\* what no handler of the pagination controller or of the live region writes
envVars == <<pagEnvVars, lastAnnounce, dropdown, carousel>>

---------------------------------------------------------------------------
(* Bounds of the model.                                                    *)

\* fetches issued to an overriding fetchMoreItems() in a behaviour (the
\* reference source ends by itself at ReferenceTotal items)
MaxFetches == 3
\* largest batch an overriding fetchMoreItems() returns
MaxBatch == 2
\* most items the container holds when the controller is constructed
MaxInitialItems == 3

(* Program constants.                                                      *)

DefaultItemsPerPage == 10
ReferenceTotal == 50

LoadMoreText == "Load more items"
LoadingText == "Loading more items..."
NoMoreText == "No more items to load"
LoadingStatus == "Loading new items..."
AllLoadedStatus == "All items have been loaded."
ErrorStatus == "Error loading items. Please try again."

Min(a, b) == IF a < b THEN a ELSE b

---------------------------------------------------------------------------
(* DOM nodes of the Item Store.  label is the number in aria-label         *)
(* "Item <label>"; title and description are numbers standing for the      *)
(* strings "Item <n>" and "... item <n>"; 0 is an absent attribute.        *)

Node(kind, label, title, description) ==
    [kind |-> kind, label |-> label, title |-> title, description |-> description]

ExistingItem == Node("existing", 0, 0, 0)
SkipLink == Node("skip-to-end", 0, 0, 0)
Controls == Node("pagination-controls", 0, 0, 0)
EndAnchor == Node("pagination-end", 0, 0, 0)

\* An item of a batch: title and description, 0 when the field is missing.
ItemData(title, description) == [title |-> title, description |-> description]

createItemElement(itemData, index) ==
    Node("pagination-item", index,
         IF itemData.title # 0 THEN itemData.title ELSE index,
         IF itemData.description # 0 THEN itemData.description ELSE index)

\* The children of itemsContainer once the constructor has run: without a
\* .pagination-items element the container itself is the Item Store, and the
\* skip link, the controls and the end anchor are inserted into it.
InitialChildren(own, n) ==
    LET existing == [i \in 1..n |-> ExistingItem]
    IN  IF own THEN existing
        ELSE <<SkipLink>> \o existing \o <<Controls, EndAnchor>>

---------------------------------------------------------------------------
(* The live region of AccessibilityManager.                                *)

Message(msg, n, total) == [msg |-> msg, n |-> n, total |-> total]
NoMessage == Message("", 0, 0)
LoadedMessage(k, total) == Message("Loaded more items", k, total)
ErrorMessage == Message("Error loading more items", 0, 0)

\* Faulty variant of announce(): the priority argument is dropped.
announceKeepsPriority(message, priority) ==
    /\ announcerLive' = announcerLive
    /\ announcerText' = message
    /\ clearTimers' = clearTimers + 1

\* announce(message, priority); callers test window.a11y before calling it
announce(message, priority) ==
    /\ announcerLive' = priority
    /\ announcerText' = message
    /\ clearTimers' = clearTimers + 1

\* Faulty variant of the timer callback: the text is left in the channel.
ClearTimerFiresKeepsText ==
    /\ clearTimers > 0
    /\ clearTimers' = clearTimers - 1
    /\ UNCHANGED <<announcerText, announcerLive, pagVars, envVars, lastCall>>

\* the callback of announce()'s setTimeout
ClearTimerFires ==
    /\ clearTimers > 0
    /\ clearTimers' = clearTimers - 1
    /\ announcerText' = NoMessage
    /\ UNCHANGED <<announcerLive, pagVars, envVars, lastCall>>

---------------------------------------------------------------------------
(* AccessiblePagination.                                                   *)

TypeOK ==
    /\ options \in [itemsPerPage : Nat, announceNewItems : BOOLEAN,
                    showPageNumbers : BOOLEAN]
    /\ a11y \in BOOLEAN /\ ownContainer \in BOOLEAN
    /\ source \in {"reference", "override"}
    /\ currentPage \in Nat /\ totalItems \in Nat
    /\ isLoading \in BOOLEAN /\ hasMore \in BOOLEAN
    /\ ariaBusy \in BOOLEAN /\ btnDisabled \in BOOLEAN
    /\ btnText \in {LoadMoreText, LoadingText, NoMoreText}
    /\ statusText \in {"", LoadingStatus, AllLoadedStatus, ErrorStatus}
    /\ tabindexed \subseteq 1..Len(children)
    /\ focusedChild \in 0..Len(children)
    /\ clearTimers \in Nat /\ pendingFetches \in Nat
    /\ lastCall \in {"none", "issued", "ignored", "returned"}

\* the controller and its Control Surface once the constructor has run,
\* on a container that holds totalItems items
Constructed ==
    /\ currentPage = 1
    /\ isLoading = FALSE
    /\ hasMore = TRUE
    /\ children = InitialChildren(ownContainer, totalItems)
    /\ ariaBusy = FALSE
    /\ btnDisabled = FALSE
    /\ btnText = LoadMoreText
    /\ statusText = ""
    \* setupControls runs updatePageInfo() after setupStructure counted the items
    /\ pageInfo = IF options.showPageNumbers THEN <<1, totalItems>> ELSE <<>>
    /\ tabindexed = {}
    /\ focusedChild = 0
    /\ tabTimers = <<>>
    /\ announcerText = NoMessage
    /\ announcerLive = "polite"
    /\ clearTimers = 0
    /\ pendingFetches = 0
    /\ history = <<>>
    /\ lastCall = "none"

InitPagination ==
    /\ options \in [itemsPerPage : {DefaultItemsPerPage},
                    announceNewItems : BOOLEAN,
                    showPageNumbers : BOOLEAN]
    /\ a11y \in BOOLEAN
    /\ source \in {"reference", "override"}
    /\ ownContainer \in BOOLEAN
    /\ totalItems \in 0..MaxInitialItems
    /\ Constructed

\* a widget that is not on the page, a call that was never made
NoWidget == [present |-> FALSE]
NoCall == [message |-> NoMessage, priority |-> "none"]

Init ==
    /\ InitPagination
    /\ lastAnnounce = NoCall
    /\ dropdown = NoWidget
    /\ carousel = NoWidget

\* The part of the Control Surface that setLoading() and loadMore() write.
Surface ==
    [isLoading |-> isLoading, ariaBusy |-> ariaBusy, disabled |-> btnDisabled,
     text |-> btnText, status |-> statusText]

\* Faulty variant of setLoading(): the button's disabled state is left alone.
setLoadingKeepsButton(s, loading, hm) ==
    [s EXCEPT !.isLoading = loading,
              !.ariaBusy = loading,
              !.text = IF loading THEN LoadingText
                       ELSE IF hm THEN LoadMoreText ELSE NoMoreText,
              !.status = IF loading THEN LoadingStatus ELSE ""]

\* setLoading(loading) applied to surface s while this.hasMore is hm
setLoading(s, loading, hm) ==
    [s EXCEPT !.isLoading = loading,
              !.ariaBusy = loading,
              !.disabled = loading,
              !.text = IF loading THEN LoadingText
                       ELSE IF hm THEN LoadMoreText ELSE NoMoreText,
              !.status = IF loading THEN LoadingStatus ELSE ""]

\* the else branch of the try block: the fetch brought no item
markExhausted(s) ==
    [s EXCEPT !.disabled = TRUE, !.text = NoMoreText, !.status = AllLoadedStatus]

\* the catch block's write to the status text
showError(s) == [s EXCEPT !.status = ErrorStatus]

\* Faulty variant of the finally block: setLoading(false) is not called.
finallyMissing(s, hm) == s

\* the finally block of loadMore()
finally(s, hm) == setLoading(s, FALSE, hm)

\* the surface s becomes the state of the DOM
Shown(s) ==
    /\ isLoading' = s.isLoading
    /\ ariaBusy' = s.ariaBusy
    /\ btnDisabled' = s.disabled
    /\ btnText' = s.text
    /\ statusText' = s.status

\* Faulty variants of the guard: one of its two tests is missing.
PassesGuardNoLoadingTest == hasMore
PassesGuardNoHasMoreTest == ~isLoading

\* the guard of loadMore(): TRUE when the call goes on to fetch
PassesGuard == ~(isLoading \/ ~hasMore)

\* loadMore() from its first line to its await
loadMore ==
    IF PassesGuard
    THEN /\ source = "override" => Len(history) + pendingFetches < MaxFetches
         /\ Shown(setLoading(Surface, TRUE, hasMore))
         /\ pendingFetches' = pendingFetches + 1
         /\ lastCall' = "issued"
         /\ UNCHANGED <<hasMore, currentPage, totalItems, children, pageInfo,
                        tabindexed, focusedChild, tabTimers, history,
                        announcerVars, envVars>>
    ELSE /\ lastCall' = "ignored"
         /\ UNCHANGED <<pagVars, announcerVars, envVars>>

\* click on the load-more button; a disabled button dispatches no click
ClickLoadMore ==
    /\ ~btnDisabled
    /\ loadMore

\* Ctrl+PageDown inside the items container
CtrlPageDown == loadMore

---------------------------------------------------------------------------
(* The item source.  A settled fetch is kind "items" with the batch, kind  *)
(* "null" for a resolved value that is no array, or kind "rejected".       *)

Resolved(items) == [kind |-> "items", items |-> items]
ResolvedNull == [kind |-> "null", items |-> <<>>]
Rejected == [kind |-> "rejected", items |-> <<>>]

\* Faulty variant of the reference source: full pages until the total is reached.
fetchMoreItemsFullPages ==
    LET itemsToLoad == IF totalItems < ReferenceTotal THEN options.itemsPerPage ELSE 0
    IN  Resolved([i \in 1..itemsToLoad |-> ItemData(totalItems + i, totalItems + i)])

\* the reference fetchMoreItems(), evaluated when its delay has elapsed
fetchMoreItems ==
    LET itemsToLoad == Min(options.itemsPerPage, ReferenceTotal - totalItems)
    IN  Resolved([i \in 1..itemsToLoad |-> ItemData(totalItems + i, totalItems + i)])

\* what an overriding fetchMoreItems() may settle with: k items without a
\* description, titled 1001, 1002, ...
OverrideBatch(k) == [i \in 1..k |-> ItemData(1000 + i, 0)]

FetchResults ==
    IF source = "reference" THEN {fetchMoreItems}
    ELSE {Rejected, ResolvedNull} \cup {Resolved(OverrideBatch(k)) : k \in 0..MaxBatch}

Settled(outcome, n) == [outcome |-> outcome, n |-> n]

---------------------------------------------------------------------------
(* loadMore() after its await.                                             *)

\* updatePageInfo(), with the page and the item count it reads
updatePageInfo(page, items) ==
    pageInfo' = IF options.showPageNumbers THEN <<page, items>> ELSE pageInfo

\* Faulty variant of addItems(): the new nodes replace the old content.
addItemsReplacing(items) ==
    LET k == Len(items)
    IN  /\ children' = [i \in 1..k |-> createItemElement(items[i], totalItems + i)]
        /\ totalItems' = totalItems + k
        /\ updatePageInfo(currentPage, totalItems')
        /\ tabindexed' = {1}
        /\ focusedChild' = 1
        /\ tabTimers' = Append(tabTimers, 1)

\* Faulty variant of addItems(): totalItems is recounted from the children.
addItemsRecount(items) ==
    LET k == Len(items)
        firstNewItem == Len(children) + 1
    IN  /\ children' = children \o
                [i \in 1..k |-> createItemElement(items[i], totalItems + i)]
        /\ totalItems' = Len(children')
        /\ updatePageInfo(currentPage, totalItems')
        /\ tabindexed' = tabindexed \cup {firstNewItem}
        /\ focusedChild' = firstNewItem
        /\ tabTimers' = Append(tabTimers, firstNewItem)

\* addItems(items): append, count, page info, focus of the first new item
addItems(items) ==
    LET k == Len(items)
        \* children[this.totalItems - items.length], counted from 1
        firstNewItem == (totalItems + k) - k + 1
    IN  /\ children' = children \o
                [i \in 1..k |-> createItemElement(items[i], totalItems + i)]
        /\ totalItems' = totalItems + k
        /\ updatePageInfo(currentPage, totalItems')
        /\ IF firstNewItem <= Len(children')
           THEN /\ tabindexed' = tabindexed \cup {firstNewItem}
                /\ focusedChild' = firstNewItem
                /\ tabTimers' = Append(tabTimers, firstNewItem)
           ELSE UNCHANGED <<tabindexed, focusedChild, tabTimers>>

\* the callback of addItems()'s setTimeout
TabTimerFires ==
    /\ tabTimers # <<>>
    /\ tabindexed' = tabindexed \ {Head(tabTimers)}
    /\ tabTimers' = Tail(tabTimers)
    /\ UNCHANGED <<currentPage, totalItems, isLoading, hasMore, children,
                   ariaBusy, btnDisabled, btnText, statusText, pageInfo,
                   focusedChild, pendingFetches, history, announcerVars,
                   envVars, lastCall>>

\* try block, newItems non-empty
LoadSucceeded(items) ==
    /\ addItems(items)
    /\ currentPage' = currentPage + 1
    /\ IF options.announceNewItems /\ a11y
       THEN announce(LoadedMessage(Len(items), totalItems'), "polite")
       ELSE UNCHANGED announcerVars
    /\ hasMore' = hasMore
    /\ Shown(finally(Surface, hasMore'))
    /\ history' = Append(history, Settled("items", Len(items)))

\* try block, newItems null or empty
LoadExhausted ==
    /\ hasMore' = FALSE
    /\ Shown(finally(markExhausted(Surface), hasMore'))
    /\ history' = Append(history, Settled("empty", 0))
    /\ UNCHANGED <<currentPage, totalItems, children, pageInfo, tabindexed,
                   focusedChild, tabTimers, announcerVars>>

\* Faulty variant of the catch block: a failure ends the list.
LoadFailedTerminal ==
    /\ IF a11y THEN announce(ErrorMessage, "assertive")
       ELSE UNCHANGED announcerVars
    /\ hasMore' = FALSE
    /\ Shown(finally(showError(Surface), hasMore'))
    /\ history' = Append(history, Settled("rejected", 0))
    /\ UNCHANGED <<currentPage, totalItems, children, pageInfo, tabindexed,
                   focusedChild, tabTimers>>

\* catch block
LoadFailed ==
    /\ IF a11y THEN announce(ErrorMessage, "assertive")
       ELSE UNCHANGED announcerVars
    /\ hasMore' = hasMore
    /\ Shown(finally(showError(Surface), hasMore'))
    /\ history' = Append(history, Settled("rejected", 0))
    /\ UNCHANGED <<currentPage, totalItems, children, pageInfo, tabindexed,
                   focusedChild, tabTimers>>

\* the pending fetch settles and loadMore() runs to its end
FetchSettles ==
    /\ pendingFetches > 0
    /\ pendingFetches' = pendingFetches - 1
    /\ \E r \in FetchResults :
          \/ r.kind = "rejected" /\ LoadFailed
          \/ r.kind = "items" /\ Len(r.items) > 0 /\ LoadSucceeded(r.items)
          \/ r.kind # "rejected" /\ ~(r.kind = "items" /\ Len(r.items) > 0)
                /\ LoadExhausted
    /\ lastCall' = "returned"
    /\ UNCHANGED envVars

Next ==
    \/ ClickLoadMore
    \/ CtrlPageDown
    \/ FetchSettles
    \/ TabTimerFires
    \/ ClearTimerFires

Spec == Init /\ [][Next]_vars

\* The item source settles every fetch it was asked for.
SpecFair == Spec /\ WF_vars(FetchSettles)

---------------------------------------------------------------------------
(* The live region on its own: any script of the page calls                *)
(* window.a11y.announce(message[, priority]).                              *)

\* most clear timers pending when a user event or a caller comes in
MaxPendingClears == 3

SlideMessage(i, n) == Message("Slide of", i, n)
MenuOpened == Message("Menu opened", 0, 0)
MenuClosed == Message("Menu closed", 0, 0)
SelectedMessage(i) == Message("Selected", i, 0)

CallerMessages ==
    {SlideMessage(i, 4) : i \in 1..4} \cup {MenuOpened, MenuClosed, ErrorMessage}
CallerPriorities == {"polite", "assertive", "omitted"}

\* the default value of announce()'s second parameter
priorityOrDefault(p) == IF p = "omitted" THEN "polite" ELSE p

\* a pagination controller that is constructed and never used
PaginationIdle ==
    /\ InitPagination
    /\ options = [itemsPerPage |-> DefaultItemsPerPage, announceNewItems |-> TRUE,
                  showPageNumbers |-> FALSE]
    /\ ownContainer /\ source = "reference" /\ totalItems = 0

InitAnnouncer ==
    /\ PaginationIdle
    /\ a11y
    /\ lastAnnounce = NoCall
    /\ dropdown = NoWidget
    /\ carousel = NoWidget

\* a direct call announce(m) or announce(m, p); it returns at once
AnnounceCall ==
    \E m \in CallerMessages, p \in CallerPriorities :
       /\ clearTimers < MaxPendingClears
       /\ announce(m, priorityOrDefault(p))
       /\ lastAnnounce' = [message |-> m, priority |-> p]
       /\ UNCHANGED <<pagVars, pagEnvVars, lastCall, dropdown, carousel>>

NextAnnouncer ==
    \/ AnnounceCall
    \/ ClearTimerFires

SpecAnnouncer == InitAnnouncer /\ [][NextAnnouncer]_vars

\* The event loop runs every timer that is due.
SpecAnnouncerFair == SpecAnnouncer /\ WF_vars(ClearTimerFires)

---------------------------------------------------------------------------
(* JavaScript numbers as far as the index arithmetic needs them: the       *)
(* integers and NaN.  NaN is a number no index or length of the model      *)
(* takes; every comparison with it is false and arithmetic keeps it.       *)

NaN == -1000

Plus(a, b) == IF a = NaN \/ b = NaN THEN NaN ELSE a + b

\* a % n of JavaScript: NaN for n = 0, the sign of a otherwise
Rem(a, n) ==
    IF a = NaN \/ n = NaN \/ n = 0 THEN NaN
    ELSE IF a >= 0 THEN a % n ELSE 0 - ((0 - a) % n)

Less(a, b) == a # NaN /\ b # NaN /\ a < b
AtLeast(a, b) == a # NaN /\ b # NaN /\ a >= b

---------------------------------------------------------------------------
(* AccessibleDropdown.  The widget is the record dropdown; its methods are *)
(* operators from a dropdown record to the record the call leaves behind.  *)
(* Item indices are those of the source, 0 .. n-1; tabindex[i + 1] is the  *)
(* tabindex attribute of menuItems[i].                                     *)
(*   ex      a TypeError is propagating out of the current call            *)
(*   errors  a handler (or the constructor) ended with an uncaught error   *)
(*   out     the messages announced by the latest handler run, in order    *)
(*   clicks  the click events dispatched at a menu item in that run        *)

\* most menu items of a dropdown
MaxMenuItems == 3

Focus(on, index) == [on |-> on, index |-> index]

DropdownOptions ==
    [closeOnClickOutside : BOOLEAN, closeOnEscape : BOOLEAN,
     announceStateChanges : BOOLEAN]

DefaultDropdownOptions ==
    [closeOnClickOutside |-> TRUE, closeOnEscape |-> TRUE,
     announceStateChanges |-> TRUE]

\* reading a property of this.menu (or of an undefined menu item) throws
Throw(d) == [d EXCEPT !.ex = TRUE]

\* the announcement guarded by options.announceStateChanges && window.a11y
Announced(d, message) ==
    IF d.options.announceStateChanges /\ a11y
    THEN [d EXCEPT !.out = Append(@, message)]
    ELSE d

\* the constructor: fields, setupStructure, setupEventListeners and
\* setupAccessibility, which appends the instructions to this.menu
NewDropdown(opts, hasMenu, n, clickable) ==
    LET d == [present |-> TRUE,
              options |-> opts,
              hasMenu |-> hasMenu,
              n |-> IF hasMenu THEN n ELSE 0,
              clickable |-> clickable,
              isOpen |-> FALSE,
              currentIndex |-> -1,
              tabindex |-> [i \in 1..(IF hasMenu THEN n ELSE 0) |-> "-1"],
              menuHidden |-> TRUE,
              ariaExpanded |-> IF hasMenu THEN "false" ELSE "absent",
              focus |-> Focus("none", 0),
              ex |-> FALSE,
              errors |-> FALSE,
              out |-> <<>>,
              clicks |-> 0]
    IN  IF hasMenu THEN d ELSE Throw(d)

focusItem(d, index) ==
    IF Less(index, 0) \/ AtLeast(index, d.n) THEN d
    ELSE LET d1 == IF AtLeast(d.currentIndex, 0)
                   THEN [d EXCEPT !.tabindex[d.currentIndex + 1] = "-1"]
                   ELSE d
             d2 == [d1 EXCEPT !.currentIndex = index]
         IN  IF index = NaN THEN Throw(d2)
             ELSE [d2 EXCEPT !.tabindex[index + 1] = "0",
                             !.focus = Focus("item", index)]

focusFirstItem(d) == focusItem(d, 0)

focusLastItem(d) == focusItem(d, d.n - 1)

\* Faulty variant of focusNextItem(): the index does not wrap around.
focusNextItemNoWrap(d) == focusItem(d, Plus(d.currentIndex, 1))

focusNextItem(d) == focusItem(d, Rem(Plus(d.currentIndex, 1), d.n))

focusPreviousItem(d) ==
    focusItem(d, Rem(Plus(Plus(d.currentIndex, -1), d.n), d.n))

open(d) ==
    IF d.isOpen THEN d
    ELSE LET d1 == [d EXCEPT !.isOpen = TRUE]
         IN  IF ~d.hasMenu THEN Throw(d1)
             ELSE focusFirstItem(
                    Announced([d1 EXCEPT !.menuHidden = FALSE,
                                         !.ariaExpanded = "true"], MenuOpened))

\* Faulty variant of close(): currentIndex is not reset.
closeKeepsIndex(d) ==
    IF ~d.isOpen THEN d
    ELSE LET d1 == [d EXCEPT !.isOpen = FALSE]
         IN  IF ~d.hasMenu THEN Throw(d1)
             ELSE Announced([d1 EXCEPT !.menuHidden = TRUE,
                                       !.ariaExpanded = "false"], MenuClosed)

close(d) ==
    IF ~d.isOpen THEN d
    ELSE LET d1 == [d EXCEPT !.isOpen = FALSE]
         IN  IF ~d.hasMenu THEN Throw(d1)
             ELSE Announced([d1 EXCEPT !.menuHidden = TRUE,
                                       !.ariaExpanded = "false",
                                       !.currentIndex = -1], MenuClosed)

toggle(d) == IF d.isOpen THEN close(d) ELSE open(d)

\* this.trigger.focus()
focusTrigger(d) == IF d.ex THEN d ELSE [d EXCEPT !.focus = Focus("trigger", 0)]

\* selectItem(index) once item.click() has been dealt with
selectItemTail(d, index) ==
    LET valid == AtLeast(index, 0) /\ Less(index, d.n)
        d1 == IF valid THEN Announced(d, SelectedMessage(index)) ELSE d
    IN  focusTrigger(close(d1))

\* selectItem(index).  item.click() dispatches a click event at the item,
\* whose listener calls selectItem(index) again; in that nested call
\* item.click() does nothing, because a click() of the element is in progress.
selectItem(d, index) ==
    LET valid == AtLeast(index, 0) /\ Less(index, d.n)
        d1 == IF valid /\ d.clickable
              THEN selectItemTail([d EXCEPT !.clicks = @ + 1], index)
              ELSE d
    IN  selectItemTail(d1, index)

selectCurrentItem(d) ==
    IF AtLeast(d.currentIndex, 0) THEN selectItem(d, d.currentIndex) ELSE d

\* the document's click listener for a click outside trigger and menu
outsideClick(d) ==
    IF ~d.options.closeOnClickOutside THEN d
    ELSE IF ~d.hasMenu THEN Throw(d)
    ELSE close(d)

\* the document's keydown listener for Escape
documentEscape(d) ==
    IF d.options.closeOnEscape /\ d.isOpen THEN focusTrigger(close(d)) ELSE d

TriggerKeys == {"Enter", " ", "ArrowDown", "ArrowUp"}

\* the trigger's keydown listener
triggerKeydown(d, key) ==
    LET d1 == open(d)
    IN  IF key \in {"Enter", " "} THEN d1
        ELSE IF d1.ex THEN d1
        ELSE IF key = "ArrowDown" THEN focusFirstItem(d1)
        ELSE focusLastItem(d1)

MenuKeys == {"ArrowDown", "ArrowUp", "Home", "End", "Enter", " ", "Escape", "Tab"}

handleMenuKeydown(d, key) ==
    CASE key = "ArrowDown" -> focusNextItem(d)
      [] key = "ArrowUp" -> focusPreviousItem(d)
      [] key = "Home" -> focusFirstItem(d)
      [] key = "End" -> focusLastItem(d)
      [] key \in {"Enter", " "} -> selectCurrentItem(d)
      [] key = "Escape" -> focusTrigger(close(d))
      [] key = "Tab" -> close(d)

\* a handler run starts with nothing announced and no error in flight
Begin(d) == [d EXCEPT !.out = <<>>, !.clicks = 0, !.ex = FALSE]

\* a handler run ends; an error still in flight is reported as uncaught
End(d) == [d EXCEPT !.errors = @ \/ d.ex, !.ex = FALSE]

\* the announce() calls of one handler run, in order
announceAll(out) ==
    IF out = <<>> THEN UNCHANGED announcerVars
    ELSE /\ announcerLive' = priorityOrDefault("omitted")
         /\ announcerText' = out[Len(out)]
         /\ clearTimers' = clearTimers + Len(out)

\* one run of the dropdown's handlers with result d
DropdownRuns(d) ==
    /\ dropdown' = End(d)
    /\ announceAll(d.out)
    /\ UNCHANGED <<pagVars, options, source, ownContainer, a11y, lastCall,
                   lastAnnounce, carousel>>

\* the user can act on the dropdown
DropdownReady == dropdown.present /\ clearTimers < MaxPendingClears

\* click on the trigger: its listener, then the document's (target in trigger)
TriggerClick ==
    /\ DropdownReady
    /\ DropdownRuns(toggle(Begin(dropdown)))

\* Enter, Space, ArrowDown or ArrowUp on the trigger
TriggerKeydown ==
    /\ DropdownReady
    /\ \E key \in TriggerKeys : DropdownRuns(triggerKeydown(Begin(dropdown), key))

\* a key pressed inside the visible menu; Escape goes on to the document,
\* where the menu is closed already
MenuKeydown ==
    /\ DropdownReady
    /\ dropdown.hasMenu /\ ~dropdown.menuHidden
    /\ \E key \in MenuKeys :
          LET d == handleMenuKeydown(Begin(dropdown), key)
          IN  DropdownRuns(IF key = "Escape" THEN documentEscape(End(d)) ELSE d)

\* a mouse click on a visible menu item: a click event at the item, its
\* listener, then the document's listener (target in menu)
ItemClick ==
    /\ DropdownReady
    /\ dropdown.hasMenu /\ ~dropdown.menuHidden
    /\ \E i \in 0..(dropdown.n - 1) :
          DropdownRuns(selectItem([Begin(dropdown) EXCEPT !.clicks = 1], i))

\* a click elsewhere in the document
OutsideClick ==
    /\ DropdownReady
    /\ DropdownRuns(outsideClick(Begin(dropdown)))

\* Escape pressed outside the menu
EscapeKeydown ==
    /\ DropdownReady
    /\ DropdownRuns(documentEscape(Begin(dropdown)))

InitDropdown ==
    /\ PaginationIdle
    /\ a11y \in BOOLEAN
    /\ lastAnnounce = NoCall
    /\ carousel = NoWidget
    /\ \E opts \in DropdownOptions, hasMenu \in BOOLEAN, n \in 0..MaxMenuItems,
          clickable \in BOOLEAN :
          dropdown = End(NewDropdown(opts, hasMenu, n, clickable))

NextDropdown ==
    \/ TriggerClick
    \/ TriggerKeydown
    \/ MenuKeydown
    \/ ItemClick
    \/ OutsideClick
    \/ EscapeKeydown
    \/ ClearTimerFires

SpecDropdown == InitDropdown /\ [][NextDropdown]_vars

---------------------------------------------------------------------------
(* AccessibleCarousel.  The widget is the record carousel; its methods are *)
(* operators on that record, as for the dropdown.  hidden[i + 1] and       *)
(* tabindex[i + 1] belong to slides[i], selected[i + 1] to the dot of      *)
(* slide i.  pointerInside and focusInside are the user's pointer and      *)
(* keyboard focus being inside the container; intervals counts the         *)
(* setInterval timers that are running.                                    *)

\* most slides of a carousel
MaxSlides == 3

CarouselOptions ==
    [autoPlay : BOOLEAN, pauseOnHover : BOOLEAN, pauseOnFocus : BOOLEAN,
     showDots : BOOLEAN, showArrows : BOOLEAN, announceSlides : BOOLEAN]

DefaultCarouselOptions ==
    [autoPlay |-> FALSE, pauseOnHover |-> TRUE, pauseOnFocus |-> TRUE,
     showDots |-> TRUE, showArrows |-> TRUE, announceSlides |-> TRUE]

\* the constructor.  setupControls reads options.autoPlay before
\* setupAccessibility clears it for a user who prefers reduced motion.
NewCarousel(opts, n, reducedMotion) ==
    [present |-> TRUE,
     options |-> [opts EXCEPT !.autoPlay = @ /\ ~(a11y /\ reducedMotion)],
     n |-> n,
     currentSlide |-> 0,
     hidden |-> [i \in 1..n |-> i # 1],
     tabindex |-> [i \in 1..n |-> IF i = 1 THEN "0" ELSE "-1"],
     selected |-> [i \in 1..(IF opts.showDots /\ n > 1 THEN n ELSE 0) |-> i = 1],
     hasArrows |-> opts.showArrows,
     hasPlayPause |-> opts.autoPlay,
     \* the media query (prefers-reduced-motion: reduce) at construction
     reducedMotion |-> reducedMotion,
     playPauseLabel |-> "Play carousel",
     isPlaying |-> FALSE,
     playInterval |-> FALSE,
     intervals |-> 0,
     pointerInside |-> FALSE,
     focusInside |-> FALSE,
     ex |-> FALSE,
     errors |-> FALSE,
     out |-> <<>>]

\* Faulty variant of goToSlide(): the previous slide keeps its tab stop.
goToSlideKeepsTabStop(c, index) ==
    IF Less(index, 0) \/ AtLeast(index, c.n)
          \/ (index # NaN /\ index = c.currentSlide)
    THEN c
    ELSE LET previousSlide == c.currentSlide
             c1 == [c EXCEPT !.currentSlide = index]
         IN  \* slides[previousSlide] is undefined
             IF previousSlide = NaN \/ previousSlide >= c.n THEN Throw(c1)
             ELSE LET c2 == [c1 EXCEPT !.hidden[previousSlide + 1] = TRUE]
                  IN  \* slides[index] is undefined
                      IF index = NaN THEN Throw(c2)
                      ELSE LET c3 == [c2 EXCEPT !.hidden[index + 1] = FALSE,
                                                !.tabindex[index + 1] = "0"]
                               c4 == IF Len(c3.selected) > 0
                                     THEN [[c3 EXCEPT !.selected[previousSlide + 1] = FALSE]
                                               EXCEPT !.selected[index + 1] = TRUE]
                                     ELSE c3
                           IN  IF c.options.announceSlides /\ a11y
                               THEN [c4 EXCEPT !.out =
                                       Append(@, SlideMessage(index + 1, c.n))]
                               ELSE c4

\* Faulty variant of goToSlide(): the test for the current slide is missing.
goToSlideNoSameTest(c, index) ==
    IF Less(index, 0) \/ AtLeast(index, c.n)
    THEN c
    ELSE LET previousSlide == c.currentSlide
             c1 == [c EXCEPT !.currentSlide = index]
         IN  \* slides[previousSlide] is undefined
             IF previousSlide = NaN \/ previousSlide >= c.n THEN Throw(c1)
             ELSE LET c2 == [c1 EXCEPT !.hidden[previousSlide + 1] = TRUE,
                                       !.tabindex[previousSlide + 1] = "-1"]
                  IN  \* slides[index] is undefined
                      IF index = NaN THEN Throw(c2)
                      ELSE LET c3 == [c2 EXCEPT !.hidden[index + 1] = FALSE,
                                                !.tabindex[index + 1] = "0"]
                               c4 == IF Len(c3.selected) > 0
                                     THEN [[c3 EXCEPT !.selected[previousSlide + 1] = FALSE]
                                               EXCEPT !.selected[index + 1] = TRUE]
                                     ELSE c3
                           IN  IF c.options.announceSlides /\ a11y
                               THEN [c4 EXCEPT !.out =
                                       Append(@, SlideMessage(index + 1, c.n))]
                               ELSE c4

\* Faulty variant of goToSlide(): the previous slide is not hidden.
goToSlideKeepsVisible(c, index) ==
    IF Less(index, 0) \/ AtLeast(index, c.n)
          \/ (index # NaN /\ index = c.currentSlide)
    THEN c
    ELSE LET previousSlide == c.currentSlide
             c1 == [c EXCEPT !.currentSlide = index]
         IN  \* slides[previousSlide] is undefined
             IF previousSlide = NaN \/ previousSlide >= c.n THEN Throw(c1)
             ELSE LET c2 == [c1 EXCEPT !.tabindex[previousSlide + 1] = "-1"]
                  IN  \* slides[index] is undefined
                      IF index = NaN THEN Throw(c2)
                      ELSE LET c3 == [c2 EXCEPT !.hidden[index + 1] = FALSE,
                                                !.tabindex[index + 1] = "0"]
                               c4 == IF Len(c3.selected) > 0
                                     THEN [[c3 EXCEPT !.selected[previousSlide + 1] = FALSE]
                                               EXCEPT !.selected[index + 1] = TRUE]
                                     ELSE c3
                           IN  IF c.options.announceSlides /\ a11y
                               THEN [c4 EXCEPT !.out =
                                       Append(@, SlideMessage(index + 1, c.n))]
                               ELSE c4

goToSlide(c, index) ==
    IF Less(index, 0) \/ AtLeast(index, c.n)
          \/ (index # NaN /\ index = c.currentSlide)
    THEN c
    ELSE LET previousSlide == c.currentSlide
             c1 == [c EXCEPT !.currentSlide = index]
         IN  \* slides[previousSlide] is undefined
             IF previousSlide = NaN \/ previousSlide >= c.n THEN Throw(c1)
             ELSE LET c2 == [c1 EXCEPT !.hidden[previousSlide + 1] = TRUE,
                                       !.tabindex[previousSlide + 1] = "-1"]
                  IN  \* slides[index] is undefined
                      IF index = NaN THEN Throw(c2)
                      ELSE LET c3 == [c2 EXCEPT !.hidden[index + 1] = FALSE,
                                                !.tabindex[index + 1] = "0"]
                               c4 == IF Len(c3.selected) > 0
                                     THEN [[c3 EXCEPT !.selected[previousSlide + 1] = FALSE]
                                               EXCEPT !.selected[index + 1] = TRUE]
                                     ELSE c3
                           IN  IF c.options.announceSlides /\ a11y
                               THEN [c4 EXCEPT !.out =
                                       Append(@, SlideMessage(index + 1, c.n))]
                               ELSE c4

nextSlide(c) == goToSlide(c, Rem(Plus(c.currentSlide, 1), c.n))

previousSlide(c) ==
    goToSlide(c, Rem(Plus(Plus(c.currentSlide, -1), c.n), c.n))

\* Faulty variant of play(): the test for isPlaying is missing.
playNoPlayingTest(c) ==
    IF ~c.options.autoPlay THEN c
    ELSE [c EXCEPT !.isPlaying = TRUE,
                   !.playInterval = TRUE,
                   !.intervals = @ + 1,
                   !.playPauseLabel = IF c.hasPlayPause THEN "Pause carousel" ELSE @]

play(c) ==
    IF ~c.options.autoPlay \/ c.isPlaying THEN c
    ELSE [c EXCEPT !.isPlaying = TRUE,
                   !.playInterval = TRUE,
                   !.intervals = @ + 1,
                   !.playPauseLabel = IF c.hasPlayPause THEN "Pause carousel" ELSE @]

pause(c) ==
    LET c1 == [c EXCEPT !.isPlaying = FALSE]
        c2 == IF c.playInterval
              THEN [c1 EXCEPT !.playInterval = FALSE, !.intervals = @ - 1]
              ELSE c1
    IN  [c2 EXCEPT !.playPauseLabel = IF c.hasPlayPause THEN "Play carousel" ELSE @]

togglePlayPause(c) == IF c.isPlaying THEN pause(c) ELSE play(c)

CarouselKeys == {"ArrowLeft", "ArrowRight", "Home", "End"}

\* the container's keydown listener; Enter and Space on a dot click the dot
carouselKeydown(c, key) ==
    CASE key = "ArrowLeft" -> previousSlide(c)
      [] key = "ArrowRight" -> nextSlide(c)
      [] key = "Home" -> goToSlide(c, 0)
      [] key = "End" -> goToSlide(c, c.n - 1)

\* the listeners of setupAccessibility
mouseenter(c) == IF c.options.pauseOnHover THEN pause(c) ELSE c
mouseleave(c) == IF c.options.pauseOnHover /\ c.options.autoPlay THEN play(c) ELSE c
focusin(c) == IF c.options.pauseOnFocus THEN pause(c) ELSE c
focusout(c) == IF c.options.pauseOnFocus /\ c.options.autoPlay THEN play(c) ELSE c

\* one run of the carousel's handlers with result c
CarouselRuns(c) ==
    /\ carousel' = End(c)
    /\ announceAll(c.out)
    /\ UNCHANGED <<pagVars, options, source, ownContainer, a11y, lastCall,
                   lastAnnounce, dropdown>>

CarouselBegin == [carousel EXCEPT !.out = <<>>, !.ex = FALSE]

\* the user can act on the carousel
CarouselReady == carousel.present /\ clearTimers < MaxPendingClears

\* the user reaches a control of the carousel with the pointer or the keyboard
AtControls == carousel.pointerInside \/ carousel.focusInside

PrevClick ==
    /\ CarouselReady /\ AtControls /\ carousel.hasArrows
    /\ CarouselRuns(previousSlide(CarouselBegin))

NextClick ==
    /\ CarouselReady /\ AtControls /\ carousel.hasArrows
    /\ CarouselRuns(nextSlide(CarouselBegin))

\* a click on the dot of slide i, or Enter or Space on it
DotClick ==
    /\ CarouselReady /\ AtControls
    /\ \E i \in 0..(Len(carousel.selected) - 1) :
          CarouselRuns(goToSlide(CarouselBegin, i))

PlayPauseClick ==
    /\ CarouselReady /\ AtControls /\ carousel.hasPlayPause
    /\ CarouselRuns(togglePlayPause(CarouselBegin))

\* a key pressed while the focus is inside the container
CarouselKeydown ==
    /\ CarouselReady /\ carousel.focusInside
    /\ \E key \in CarouselKeys : CarouselRuns(carouselKeydown(CarouselBegin, key))

MouseEnter ==
    /\ CarouselReady /\ ~carousel.pointerInside
    /\ CarouselRuns(mouseenter([CarouselBegin EXCEPT !.pointerInside = TRUE]))

MouseLeave ==
    /\ CarouselReady /\ carousel.pointerInside
    /\ CarouselRuns(mouseleave([CarouselBegin EXCEPT !.pointerInside = FALSE]))

\* the focus enters the container
FocusIn ==
    /\ CarouselReady /\ ~carousel.focusInside
    /\ CarouselRuns(focusin([CarouselBegin EXCEPT !.focusInside = TRUE]))

\* the focus leaves the container
FocusOut ==
    /\ CarouselReady /\ carousel.focusInside
    /\ CarouselRuns(focusout([CarouselBegin EXCEPT !.focusInside = FALSE]))

\* the focus moves from one element of the container to another one:
\* focusout, then focusin
FocusMoves ==
    /\ CarouselReady /\ carousel.focusInside
    /\ CarouselRuns(focusin(focusout(CarouselBegin)))

\* the callback of play()'s setInterval
AutoplayTick ==
    /\ CarouselReady /\ carousel.intervals > 0
    /\ CarouselRuns(nextSlide(CarouselBegin))

InitCarousel ==
    /\ PaginationIdle
    /\ a11y \in BOOLEAN
    /\ lastAnnounce = NoCall
    /\ dropdown = NoWidget
    /\ \E opts \in CarouselOptions, n \in 0..MaxSlides, reducedMotion \in BOOLEAN :
          carousel = NewCarousel(opts, n, reducedMotion)

NextCarousel ==
    \/ PrevClick
    \/ NextClick
    \/ DotClick
    \/ PlayPauseClick
    \/ CarouselKeydown
    \/ MouseEnter
    \/ MouseLeave
    \/ FocusIn
    \/ FocusOut
    \/ FocusMoves
    \/ AutoplayTick
    \/ ClearTimerFires

SpecCarousel == InitCarousel /\ [][NextCarousel]_vars

---------------------------------------------------------------------------
(* A page with a dropdown and a carousel, both with at least one item, on   *)
(* which accessibility-utils.js is not loaded: nothing is announced.       *)

InitWidgets ==
    /\ PaginationIdle
    /\ ~a11y
    /\ lastAnnounce = NoCall
    /\ \E n \in 1..MaxMenuItems, clickable \in BOOLEAN :
          dropdown = End(NewDropdown(DefaultDropdownOptions, TRUE, n, clickable))
    /\ \E autoPlay \in BOOLEAN, n \in 1..MaxSlides :
          carousel = NewCarousel([DefaultCarouselOptions EXCEPT !.autoPlay = autoPlay],
                                 n, FALSE)

NextWidgets ==
    \/ TriggerClick
    \/ TriggerKeydown
    \/ MenuKeydown
    \/ ItemClick
    \/ OutsideClick
    \/ EscapeKeydown
    \/ PrevClick
    \/ NextClick
    \/ DotClick
    \/ PlayPauseClick
    \/ CarouselKeydown
    \/ MouseEnter
    \/ MouseLeave
    \/ FocusIn
    \/ FocusOut
    \/ FocusMoves
    \/ AutoplayTick

SpecWidgets == InitWidgets /\ [][NextWidgets]_vars

---------------------------------------------------------------------------
(* The pagination with the reference item source, for page sizes of 1 and   *)
(* more, on containers that hold up to ReferenceTotal items already.        *)

\* largest options.itemsPerPage
MaxPageSize == 4

\* most items the reference source still has for the container
MaxRemaining == 6

InitReference ==
    /\ a11y \in BOOLEAN
    /\ options \in [itemsPerPage : 1..MaxPageSize, announceNewItems : {TRUE},
                    showPageNumbers : {FALSE}]
    /\ ownContainer = TRUE
    /\ source = "reference"
    /\ totalItems \in (ReferenceTotal - MaxRemaining)..ReferenceTotal
    /\ Constructed
    /\ lastAnnounce = NoCall
    /\ dropdown = NoWidget
    /\ carousel = NoWidget

SpecReference == InitReference /\ [][Next]_vars

\* a user trigger that finds the controller ready to load
UserLoads == PassesGuard /\ (ClickLoadMore \/ CtrlPageDown)

\* The source settles every fetch, and the user keeps triggering loads.
SpecReferenceFair ==
    SpecReference /\ WF_vars(FetchSettles) /\ WF_vars(UserLoads)

---------------------------------------------------------------------------
(* Helpers of the properties.                                              *)

Last(seq) == seq[Len(seq)]

IsPrefix(a, b) == Len(a) <= Len(b) /\ \A i \in 1..Len(a) : a[i] = b[i]

RECURSIVE SumOfBatches(_)
SumOfBatches(h) == IF h = <<>> THEN 0 ELSE h[1].n + SumOfBatches(Tail(h))

\* the number of items the container held at construction
InitialCount == Cardinality({i \in DOMAIN children : children[i].kind = "existing"})

NonEmptyLoads == Cardinality({i \in DOMAIN history : history[i].outcome = "items"})

\* a step in which a fetch settles and loadMore() runs to its end
Settling == pendingFetches' < pendingFetches

\* a step in which a user trigger calls loadMore()
Triggering == ClickLoadMore \/ CtrlPageDown

\* the reference scenario of the specification
ReferenceScenario ==
    /\ source = "reference"
    /\ options.itemsPerPage = 10
    /\ InitialCount = 3

---------------------------------------------------------------------------
(* Properties.                                                             *)

\* C1: a loadMore() call made while isLoading is true issues no fetch and
\* changes neither currentPage, totalItems, hasMore nor the Item Store, and
\* no controller ever has more than one fetch outstanding.
C1_ReentrancyGuard ==
    /\ [](pendingFetches <= 1)
    /\ [][(isLoading /\ Triggering) =>
            UNCHANGED <<pendingFetches, currentPage, totalItems, hasMore, children>>]_vars

C1_Witness == isLoading /\ pendingFetches = 1 /\ lastCall = "ignored"

\* C2: once hasMore is false it is false in every later state, and from then
\* on no step issues a fetch, sets isLoading or changes currentPage,
\* totalItems or the Item Store.
C2_ExhaustionTerminal ==
    [][~hasMore =>
         /\ ~hasMore' /\ ~isLoading' /\ pendingFetches' = 0
         /\ UNCHANGED <<currentPage, totalItems, children, history>>]_vars

C2_Witness == ~hasMore /\ lastCall = "ignored" /\ Last(history).outcome = "empty"

\* C3: every settling of a fetch, whatever its outcome, leaves isLoading
\* false, and (the source settling every fetch) isLoading = TRUE always
\* leads to isLoading = FALSE.
C3_LoadingEnds ==
    /\ [][Settling => ~isLoading']_vars
    /\ (isLoading ~> ~isLoading)

C3_Witness ==
    /\ ~isLoading
    /\ \A o \in {"items", "empty", "rejected"} :
          \E i \in DOMAIN history : history[i].outcome = o

\* C4: a rejected fetch leaves hasMore, currentPage, totalItems and the Item
\* Store as they were and the controller not loading, with the guard of
\* loadMore() passing; the next user trigger then issues a new fetch.
C4_FailureNotTerminal ==
    /\ [][(Settling /\ Last(history').outcome = "rejected") =>
            /\ UNCHANGED <<hasMore, currentPage, totalItems, children>>
            /\ ~isLoading' /\ hasMore']_vars
    /\ [][(lastCall = "returned" /\ Last(history).outcome = "rejected" /\ Triggering) =>
            /\ isLoading' /\ pendingFetches' = pendingFetches + 1]_vars

C4_Witness ==
    /\ lastCall = "issued" /\ pendingFetches = 1
    /\ history # <<>> /\ Last(history).outcome = "rejected"

\* C5 (as claimed): once loadMore() has returned after a rejected fetch, the
\* status text shows the error string, until the next load starts.
C5_ErrorShown ==
    (history # <<>> /\ Last(history).outcome = "rejected" /\ ~isLoading)
        => statusText = ErrorStatus

\* C6: with the Announcer present, a rejected fetch writes the error message
\* at priority assertive, a non-empty batch writes the 'Loaded k more items'
\* message at priority polite when announceNewItems is set (and nothing
\* otherwise), and a zero-item batch writes nothing; without the Announcer
\* nothing is written.
C6_AnnouncementsByOutcome ==
    [][Settling =>
         LET h == Last(history') IN
         /\ (h.outcome = "rejected" /\ a11y) =>
               /\ announcerText' = ErrorMessage
               /\ announcerLive' = "assertive"
               /\ clearTimers' = clearTimers + 1
         /\ (h.outcome = "items" /\ a11y /\ options.announceNewItems) =>
               /\ announcerText' = LoadedMessage(h.n, totalItems')
               /\ announcerLive' = "polite"
               /\ clearTimers' = clearTimers + 1
         /\ (h.outcome = "items" /\ ~(a11y /\ options.announceNewItems)) =>
               UNCHANGED announcerVars
         /\ (h.outcome = "rejected" /\ ~a11y) => UNCHANGED announcerVars
         /\ h.outcome = "empty" => UNCHANGED announcerVars]_vars

\* a success announced after a failure: the priority is back to polite
C6_Witness ==
    /\ announcerLive = "polite"
    /\ announcerText.msg = "Loaded more items"
    /\ \E i \in DOMAIN history : history[i].outcome = "rejected"

\* C7: the loading signal (isLoading, aria-busy, the button labelled
\* loadingText) and the no-more-items signal (hasMore false, the button
\* labelled noMoreText) are never present together.
C7_LoadingExcludesExhausted ==
    ~((isLoading \/ ariaBusy \/ btnText = LoadingText)
        /\ (~hasMore \/ btnText = NoMoreText))

C7_Witness == ~hasMore /\ btnText = NoMoreText /\ ~ariaBusy /\ lastCall = "returned"

\* C8: totalItems never decreases and is >= 0, currentPage never decreases
\* and is >= 1, and the Item Store only grows at its end.
C8_MonotonicGrowth ==
    /\ [](totalItems >= 0 /\ currentPage >= 1)
    /\ [][/\ totalItems' >= totalItems
          /\ currentPage' >= currentPage
          /\ IsPrefix(children, children')]_vars

C8_Witness == currentPage >= 3 /\ Len(children) >= InitialCount + 2

\* C9: a batch of k >= 1 items is appended to the Item Store in the order
\* returned, totalItems grows by k and currentPage by 1; so currentPage is 1
\* plus the number of non-empty loads and totalItems is the initial count
\* plus the sizes of the appended batches.
C9_SuccessfulLoad ==
    /\ [][(Settling /\ Last(history').outcome = "items") =>
            \E r \in FetchResults :
               LET k == Len(r.items) IN
               /\ r.kind = "items" /\ k >= 1 /\ k = Last(history').n
               /\ Len(children') = Len(children) + k
               /\ IsPrefix(children, children')
               /\ \A i \in 1..k :
                     /\ children'[Len(children) + i].label = totalItems + i
                     /\ children'[Len(children) + i].title
                          = (IF r.items[i].title # 0 THEN r.items[i].title
                             ELSE totalItems + i)
               /\ totalItems' = totalItems + k
               /\ currentPage' = currentPage + 1]_vars
    /\ [](/\ currentPage = 1 + NonEmptyLoads
          /\ totalItems = InitialCount + SumOfBatches(history))

C9_Witness ==
    /\ NonEmptyLoads >= 2
    /\ \E i, j \in DOMAIN history :
          history[i].outcome = "items" /\ history[j].outcome = "items"
          /\ history[i].n # history[j].n

\* C10 (as claimed): in the reference scenario, after 5 completed loads
\* totalItems = 50 and the 5th response has 0 items and ends the list.
C10_FifthResponseEmpty ==
    (ReferenceScenario /\ Len(history) = 5) =>
        /\ totalItems = 50
        /\ history[5].n = 0
        /\ ~hasMore

\* C10 (amended): in the reference scenario, after 5 completed loads
\* totalItems = 50, the 5th response has 7 items and hasMore is still true;
\* the 6th response has 0 items and ends the list.
C10_SixthResponseEmpty ==
    (ReferenceScenario /\ Len(history) >= 5) =>
        /\ totalItems = 50
        /\ history[5] = Settled("items", 7)
        /\ Len(history) = 5 => hasMore
        /\ Len(history) >= 6 => (history[6] = Settled("empty", 0) /\ ~hasMore)

C10_Witness == ReferenceScenario /\ Len(history) = 6 /\ ~hasMore /\ ~isLoading

---------------------------------------------------------------------------
(* Properties of the live region.                                          *)

\* a step in which announce() runs once
Announcing == clearTimers' = clearTimers + 1

\* a step in which a clear timer fires
Clearing == clearTimers' = clearTimers - 1

\* C11: right after announce(message, priority) the channel holds message
\* with aria-live = priority (polite when omitted) and the clear timer is
\* still pending; a message in the channel has a pending timer, and every
\* message is eventually cleared.
C11_WriteThenClear ==
    /\ [][Announcing =>
            /\ announcerText' = lastAnnounce'.message
            /\ announcerLive' = (IF lastAnnounce'.priority = "omitted" THEN "polite"
                                 ELSE lastAnnounce'.priority)
            /\ clearTimers' > 0]_vars
    /\ [](announcerText # NoMessage => clearTimers > 0)
    /\ \A m \in CallerMessages : (announcerText = m) ~> (announcerText = NoMessage)

C11_Witness ==
    /\ lastAnnounce.priority = "omitted" /\ announcerLive = "polite"
    /\ announcerText = NoMessage /\ clearTimers = 0

\* C12 (as claimed): a write of announce() always changes the content of the
\* channel, also when the same message is announced twice in a row.
C12_RepeatIsDistinctEvent ==
    [][Announcing => announcerText' # announcerText]_vars

\* C13 (as claimed): the channel is only emptied by the timer of the call
\* that wrote the message in it.  Timers of equal delay fire oldest first
\* and a message in the channel was written by the latest call, so the timer
\* that fires is that call's timer only when it is the single one pending.
C13_OnlyOwnTimerClears ==
    [][(Clearing /\ announcerText # NoMessage) => clearTimers = 1]_vars

---------------------------------------------------------------------------
(* Properties of the dropdown and of the carousel.                         *)

\* the items (slides) of widget w that carry tabindex "0", counted from 1
TabStops(w) == {i \in 1..Len(w.tabindex) : w.tabindex[i] = "0"}

\* a dropdown with a menu of n >= 1 items
DropdownWithItems == dropdown.present /\ dropdown.hasMenu /\ dropdown.n >= 1

\* ... whose current index is one of 0 .. n-1
AtValidIndex ==
    /\ DropdownWithItems
    /\ dropdown.currentIndex # NaN
    /\ dropdown.currentIndex \in 0..(dropdown.n - 1)

CarouselWithSlides == carousel.present /\ carousel.n >= 1

\* C14 (as claimed): in a dropdown with n >= 1 menu items exactly one item
\* has tabindex "0" in every reachable state.
C14_DropdownOneTabStop ==
    DropdownWithItems => Cardinality(TabStops(dropdown)) = 1

\* C15: in a carousel with n >= 1 slides exactly one slide has tabindex "0",
\* it is slides[currentSlide], and every other slide has tabindex "-1".
C15_CarouselOneTabStop ==
    CarouselWithSlides =>
        /\ carousel.currentSlide # NaN
        /\ carousel.currentSlide \in 0..(carousel.n - 1)
        /\ TabStops(carousel) = {carousel.currentSlide + 1}
        /\ \A i \in 1..carousel.n :
              i # carousel.currentSlide + 1 => carousel.tabindex[i] = "-1"

C15_Witness ==
    /\ carousel.present /\ carousel.n = 3 /\ carousel.currentSlide = 2
    /\ carousel.tabindex = <<"-1", "-1", "0">>
    /\ carousel.intervals > 0

\* the focus movement from d to e ended at index j: index, DOM focus and
\* the only tabindex "0" are at j, and the item left behind has "-1"
MovedTo(d, e, j) ==
    /\ e.currentIndex = j
    /\ e.focus = Focus("item", j)
    /\ TabStops(e) = {j + 1}
    /\ j # d.currentIndex => e.tabindex[d.currentIndex + 1] = "-1"
    /\ ~e.ex

\* C16 (as claimed): from index i of n >= 1 items focusNextItem moves to
\* (i + 1) mod n, focusPreviousItem to (i - 1 + n) mod n, focusFirstItem to 0
\* and focusLastItem to n - 1; each moves the focus and tabindex "0" to
\* exactly that item and resets the item at the old index to "-1".
C16_FocusMovement ==
    AtValidIndex =>
        LET d == Begin(dropdown)
            i == d.currentIndex
            n == d.n
        IN  /\ MovedTo(d, focusNextItem(d), (i + 1) % n)
            /\ MovedTo(d, focusPreviousItem(d), (i - 1 + n) % n)
            /\ MovedTo(d, focusFirstItem(d), 0)
            /\ MovedTo(d, focusLastItem(d), n - 1)

RECURSIVE NextItemTimes(_, _)
NextItemTimes(d, k) == IF k = 0 THEN d ELSE NextItemTimes(focusNextItem(d), k - 1)

RECURSIVE NextSlideTimes(_, _)
NextSlideTimes(c, k) == IF k = 0 THEN c ELSE NextSlideTimes(nextSlide(c), k - 1)

\* what of a carousel the user sees: the current slide, the visible slide,
\* the tab stop and the selected dot
Shows(c) == <<c.currentSlide, c.hidden, c.tabindex, c.selected>>

\* C17: focusNextItem applied n times to an open menu of n >= 1 items gives
\* back the starting index and the focus on that item, and nextSlide applied
\* n times to a carousel of n >= 1 slides gives back the starting slide;
\* focusPreviousItem undoes focusNextItem and previousSlide undoes nextSlide
\* (and the other way round).
C17_CyclicNavigation ==
    /\ AtValidIndex =>
          LET d == Begin(dropdown)
              i == d.currentIndex
              e == NextItemTimes(d, d.n)
          IN  /\ e.currentIndex = i
              /\ e.focus = Focus("item", i)
              /\ e.tabindex[i + 1] = "0"
              /\ ~e.ex
              /\ focusPreviousItem(focusNextItem(d)).currentIndex = i
              /\ focusNextItem(focusPreviousItem(d)).currentIndex = i
              /\ focusPreviousItem(focusNextItem(d)).focus = Focus("item", i)
    /\ CarouselWithSlides =>
          LET c == CarouselBegin
          IN  /\ Shows(NextSlideTimes(c, c.n)) = Shows(c)
              /\ ~NextSlideTimes(c, c.n).ex
              /\ Shows(previousSlide(nextSlide(c))) = Shows(c)
              /\ Shows(nextSlide(previousSlide(c))) = Shows(c)

C17_Witness ==
    /\ dropdown.present /\ dropdown.isOpen
    /\ dropdown.n = 3 /\ dropdown.currentIndex = 1
    /\ carousel.present /\ carousel.n = 3 /\ carousel.currentSlide = 2

\* C18: goToSlide(i) changes nothing and announces nothing when i is the
\* current slide or is outside 0 .. n-1; so do nextSlide and previousSlide
\* on a carousel of one slide, Home on the first slide and End on the last.
C18_GoToSlideNoOp ==
    carousel.present =>
        LET c == CarouselBegin
        IN  /\ \A i \in -1..(c.n + 1) :
                  (i = c.currentSlide \/ i \notin 0..(c.n - 1)) => goToSlide(c, i) = c
            /\ c.n = 1 => (nextSlide(c) = c /\ previousSlide(c) = c)
            /\ c.currentSlide = 0 => carouselKeydown(c, "Home") = c
            /\ (c.n >= 1 /\ c.currentSlide = c.n - 1) => carouselKeydown(c, "End") = c

C18_Witness ==
    /\ carousel.present /\ carousel.n = 3 /\ carousel.currentSlide = carousel.n - 1
    /\ carousel.focusInside /\ carousel.options.announceSlides /\ a11y
    /\ announcerText = SlideMessage(3, 3)

\* C19 (as claimed): on a carousel without slides no event raises an error
\* and currentSlide stays 0.
C19_EmptyCarouselInert ==
    (carousel.present /\ carousel.n = 0) =>
        (~carousel.errors /\ carousel.currentSlide = 0)

\* C20 (as claimed): on a dropdown whose menu element is missing neither the
\* constructor nor any later event raises an error, and isOpen stays false.
C20_MenulessDropdownInert ==
    (dropdown.present /\ ~dropdown.hasMenu) =>
        (~dropdown.errors /\ ~dropdown.isOpen)


\* a carousel built for a user who prefers reduced motion, or without the
\* autoPlay option
AutoplayRuledOut ==
    carousel.present /\ (carousel.reducedMotion \/ ~carousel.hasPlayPause)

\* C21 (as claimed): when the reduced-motion signal was true at construction
\* or the autoPlay option is false, isPlaying is never true and no autoplay
\* interval is ever scheduled, whatever events follow.
C21_AutoplayGated ==
    AutoplayRuledOut =>
        /\ ~carousel.isPlaying
        /\ ~carousel.playInterval
        /\ carousel.intervals = 0

---------------------------------------------------------------------------
(* Properties of the pagination, continued.                                *)

\* C22: with the reference source totalItems never exceeds 50, a response is
\* empty exactly when its load was invoked with totalItems >= 50, and a user
\* who keeps triggering loads reaches the exhausted state.
C22_ReferenceSourceEnds ==
    /\ [](totalItems <= ReferenceTotal)
    /\ [][Settling => ((Last(history').n = 0) <=> (totalItems >= ReferenceTotal))]_vars
    /\ <>(~hasMore /\ ~isLoading)

\* a load brought fewer items than a page, then the list ended at the total
C22_Witness ==
    /\ ~hasMore /\ ~isLoading /\ totalItems = ReferenceTotal
    /\ Len(history) >= 3
    /\ Last(history) = Settled("empty", 0)
    /\ \E i \in DOMAIN history :
          history[i].outcome = "items" /\ history[i].n < options.itemsPerPage

\* C23 (as claimed): once the load that received zero items has returned, and
\* ever after, the load-more button is disabled, its label is noMoreText and
\* the status text reads 'All items have been loaded.'.
C23_ExhaustedSurface ==
    (~hasMore /\ ~isLoading) =>
        /\ btnDisabled
        /\ btnText = NoMoreText
        /\ statusText = AllLoadedStatus

\* C24: aria-busy of the items container equals isLoading; while isLoading
\* the button is disabled and labelled loadingText; when isLoading is false
\* and hasMore is true the button is enabled and labelled loadMoreText.
C24_SurfaceMirrorsState ==
    /\ ariaBusy = isLoading
    /\ isLoading => (btnDisabled /\ btnText = LoadingText)
    /\ (~isLoading /\ hasMore) => (~btnDisabled /\ btnText = LoadMoreText)

\* a second load is under way after a first one failed
C24_Witness ==
    /\ isLoading /\ ariaBusy /\ btnDisabled /\ btnText = LoadingText
    /\ history # <<>> /\ Last(history).outcome = "rejected"

---------------------------------------------------------------------------
(* Properties of the carousel, continued.                                  *)

\* the slides that are shown, and the dots that are selected, counted from 1
Visible(c) == {i \in 1..Len(c.hidden) : ~c.hidden[i]}
SelectedDots(c) == {i \in 1..Len(c.selected) : c.selected[i]}

\* C25: in a carousel with n >= 1 slides currentSlide is an integer in
\* 0..n-1, exactly one slide is visible and it is slides[currentSlide], and
\* when there are dots exactly one is selected, the one at currentSlide.
C25_CarouselDisplay ==
    CarouselWithSlides =>
        /\ carousel.currentSlide # NaN
        /\ carousel.currentSlide \in 0..(carousel.n - 1)
        /\ Visible(carousel) = {carousel.currentSlide + 1}
        /\ Len(carousel.selected) > 0 =>
              SelectedDots(carousel) = {carousel.currentSlide + 1}

C25_Witness ==
    /\ carousel.present /\ carousel.n = 3 /\ carousel.currentSlide = 1
    /\ carousel.hidden = <<TRUE, FALSE, TRUE>>
    /\ carousel.selected = <<FALSE, TRUE, FALSE>>

\* C26: isPlaying is true exactly when playInterval is set, and at most one
\* autoplay interval is active: play() while playing schedules nothing and
\* pause() cancels the active interval.
C26_AutoplayTimer ==
    carousel.present =>
        LET c == CarouselBegin
        IN  /\ c.isPlaying <=> c.playInterval
            /\ c.intervals = (IF c.isPlaying THEN 1 ELSE 0)
            /\ c.isPlaying => play(c) = c
            /\ ~pause(c).isPlaying /\ ~pause(c).playInterval
            /\ pause(c).intervals = 0
            /\ togglePlayPause(c).intervals <= 1

\* autoplay was resumed by an event and has advanced the slide
C26_Witness ==
    /\ carousel.present /\ carousel.isPlaying /\ carousel.playInterval
    /\ carousel.intervals = 1
    /\ ~carousel.pointerInside /\ ~carousel.focusInside
    /\ carousel.currentSlide = 2

\* the options under which hover and focus pause the autoplay
PausesOnHoverAndFocus ==
    /\ carousel.present
    /\ carousel.options.autoPlay
    /\ carousel.options.pauseOnHover
    /\ carousel.options.pauseOnFocus

\* steps in which the pointer or the focus leaves the container
PointerLeaves == carousel.pointerInside /\ ~carousel'.pointerInside
FocusLeaves == carousel.focusInside /\ ~carousel'.focusInside

\* C27 (as claimed): with autoPlay, pauseOnHover and pauseOnFocus enabled, a
\* mouseleave does not resume the autoplay while the focus is inside the
\* container, and a focusout does not resume it while the pointer is over
\* the container.
C27_NoResumeWhileEngaged ==
    [][(PausesOnHoverAndFocus /\ ~carousel.isPlaying) =>
          /\ (PointerLeaves /\ carousel'.focusInside) => ~carousel'.isPlaying
          /\ (FocusLeaves /\ carousel'.pointerInside) => ~carousel'.isPlaying]_vars

---------------------------------------------------------------------------
(* Properties of the dropdown, continued.                                  *)

\* C28: in a dropdown with a menu of n >= 1 items isOpen is true exactly when
\* aria-expanded is 'true' and exactly when the menu is not hidden; a closed
\* menu has currentIndex -1 and an open one an index in 0..n-1; open() on an
\* open menu and close() on a closed one change and announce nothing.
C28_OpenStateConsistent ==
    DropdownWithItems =>
        LET d == Begin(dropdown)
        IN  /\ d.isOpen <=> (d.ariaExpanded = "true")
            /\ d.isOpen <=> ~d.menuHidden
            /\ ~d.isOpen => d.currentIndex = -1
            /\ d.isOpen => (d.currentIndex # NaN /\ d.currentIndex \in 0..(d.n - 1))
            /\ d.isOpen => open(d) = d
            /\ ~d.isOpen => close(d) = d

\* a menu that was opened, closed and opened again, now at its last item
C28_Witness ==
    /\ DropdownWithItems /\ dropdown.n = 3
    /\ dropdown.isOpen /\ dropdown.ariaExpanded = "true" /\ ~dropdown.menuHidden
    /\ dropdown.currentIndex = 2
    /\ Cardinality(TabStops(dropdown)) = 2

\* how often the last handler run of dropdown d announced a message of set ms
Announcements(d, ms) == Cardinality({k \in 1..Len(d.out) : d.out[k] \in ms})

SelectedMessages(d) == {SelectedMessage(i) : i \in 0..(d.n - 1)}

\* the last handler run selected a menu item (and the page announces it)
ItemWasSelected ==
    DropdownWithItems /\ Announcements(dropdown, SelectedMessages(dropdown)) > 0

\* C29 (as claimed): selecting a menu item by a click or by Enter/Space
\* activates the item once and writes one 'Selected ...' announcement, after
\* which the menu is closed with one 'Menu closed' announcement and the focus
\* is on the trigger; the item's click listener does not select a second time.
C29_SelectsOnce ==
    ItemWasSelected =>
        /\ Announcements(dropdown, SelectedMessages(dropdown)) = 1
        /\ Announcements(dropdown, {MenuClosed}) = 1
        /\ ~dropdown.isOpen
        /\ dropdown.focus = Focus("trigger", 0)
        /\ dropdown.clickable => dropdown.clicks = 1

\* C30 (as claimed): on a dropdown whose menu has no items, opening it and
\* sending ArrowDown, ArrowUp, Home or End to the menu raises no error and
\* leaves currentIndex at -1; for every n >= 0 currentIndex is -1 or an
\* integer in 0..n-1 in every reachable state.
C30_IndexValid ==
    (dropdown.present /\ dropdown.hasMenu) =>
        /\ \/ dropdown.currentIndex = -1
           \/ /\ dropdown.currentIndex # NaN
              /\ dropdown.currentIndex \in 0..(dropdown.n - 1)
        /\ dropdown.n = 0 => (~dropdown.errors /\ dropdown.currentIndex = -1)

=============================================================================
